---- MODULE Spec2Model ----
(***************************************************************************)
(* A model of sapphirejs/filesystem.                                       *)
(*                                                                         *)
(*   Spec       the Filesystem facade (lib/filesystem.js): a default       *)
(*              driver, a one-shot temporary driver, thirteen operations   *)
(*              forwarded to the resolved driver, issued by call chains    *)
(*              that share one facade instance.                            *)
(*   SpecLocal  the Local driver (lib/drivers/local.js) over a model of    *)
(*              the native filesystem.                                     *)
(***************************************************************************)
EXTENDS Integers, Sequences, FiniteSets, TLC

(***************************************************************************)
(* Bounds.                                                                 *)
(***************************************************************************)
\* Number of call chains sharing the facade.
NumChains == 2

(***************************************************************************)
(* Values.                                                                 *)
(***************************************************************************)
\* JavaScript null (the initial _tempDriver) and undefined (an omitted
\* argument), both as strings so that all argument values compare.
Null == "null"
Undefined == "undefined"

\* Driver objects handed to the constructor and to in().
Drivers == {"A", "B", "C"}

Chains == 1..NumChains

\* The driver capability set: the method names a facade operation forwards to.
Methods ==
  {"read", "write", "exists", "isDirectory", "isFile", "isSymbolicLink",
   "delete", "append", "chmod", "copy", "createDir", "readDir", "rename"}

\* Argument lists a caller passes: trailing arguments may be omitted, or
\* passed as undefined.
CallerArgs(m) ==
  CASE m \in {"read", "exists", "isDirectory", "isFile", "isSymbolicLink",
              "delete", "readDir"} -> {<<"p">>}
    [] m \in {"write", "append"} -> {<<"p", "data">>}
    [] m = "chmod" -> {<<"p", "0o755">>}
    [] m = "rename" -> {<<"p", "q">>}
    [] m = "copy" -> {<<"p", "q">>, <<"p", "q", "true">>, <<"p", "q", "false">>}
    [] m = "createDir" ->
         {<<"p">>, <<"p", "0o755">>, <<"p", Undefined, "true">>,
          <<"p", "0o755", "true">>}

\* Outcomes of a driver's promise: a value, or a failure.
Outcomes == {[kind |-> "value", v |-> "r"], [kind |-> "failure", v |-> "e"]}

\* No settlement yet, and no request yet.
NoOutcome == [kind |-> "none", v |-> Null]
NoRequest == [method |-> Null, args |-> <<>>]

VARIABLES
  driver,      \* Filesystem._driver
  tempDriver,  \* Filesystem._tempDriver
  pc,          \* per chain: "idle", "chose" (after in(d)), "called" (operation in flight)
  want,        \* per chain: the driver it passed to in() for its next operation, or Null
  req,         \* the latest facade operation called: its method and the caller's arguments
  sent,        \* the driver calls the latest facade operation made, in order
  gave,        \* what the driver's promise settled with, latest settlement
  got,         \* what the facade's caller received, latest settlement
  hist         \* the three most recent facade events (in / op), oldest first

facadeVars == <<driver, tempDriver, pc, want, req, sent, gave, got, hist>>

VARIABLES
  fs,          \* the native filesystem below the working directory: node -> entry
  inflight,    \* native mkdir calls issued by a recursive createDir, not yet completed
  last,        \* the latest Local call: method, arguments and how its promise settled
  fs0,         \* the filesystem when the latest Local call started (for a call
               \* run in steps: when the step that settled it started)
  prev,        \* last and fs0 of the Local call before the latest
  mkdirs,      \* the native mkdir calls completed, in order: directory and error
  tasks        \* rename and copy calls suspended at an await: where each is

localVars == <<fs, inflight, last, fs0, prev, mkdirs, tasks>>

vars == <<facadeVars, localVars>>

(***************************************************************************)
(* The native filesystem (Node's fs over a POSIX filesystem), as the Local *)
(* driver uses it.  Paths are sequences of names below the working         *)
(* directory, which is the root <<>> and always a directory.               *)
(***************************************************************************)
\* The nodes at which an entry can be.
Nodes ==
  {<<"a">>, <<"b">>, <<"a", "a">>, <<"a", "b">>, <<"b", "a">>, <<"a", "a", "a">>}

\* The paths callers pass.
Paths == Nodes

\* File contents are strings over a one-letter alphabet, at most MaxLen long.
MaxLen == 1
Letters == {"x"}
Strings == UNION {[1..n -> Letters] : n \in 0..MaxLen}

\* The strings callers pass as data: JavaScript strings, whose code units
\* may include a surrogate without its pair.  Encoding to 'utf8' writes
\* U+FFFD for it, and decoding gives U+FFFD for a sequence that is not
\* valid UTF-8.
Surrogate == "D800"
Replacement == "FFFD"
Texts == UNION {[1..n -> Letters \cup {Surrogate}] : n \in 0..MaxLen}
Utf8(d) == [i \in 1..Len(d) |-> IF d[i] = Surrogate THEN Replacement ELSE d[i]]
FromUtf8(b) == [i \in 1..Len(b) |-> IF b[i] = Surrogate THEN Replacement ELSE b[i]]

\* Entries.  r is the owner's read permission of a regular file; a link's
\* target is a path from the working directory.
NoEntry == [kind |-> "none", data |-> <<>>, to |-> <<>>, r |-> FALSE]
DirEntry == [kind |-> "dir", data |-> <<>>, to |-> <<>>, r |-> TRUE]
FileEntry(d, r) == [kind |-> "file", data |-> d, to |-> <<>>, r |-> r]
LinkEntry(t) == [kind |-> "link", data |-> <<>>, to |-> t, r |-> TRUE]
OtherEntry == [kind |-> "other", data |-> <<>>, to |-> <<>>, r |-> TRUE]

EmptyFs == [n \in Nodes |-> NoEntry]

Lookup(f, p) ==
  IF p = <<>> THEN DirEntry ELSE IF p \in Nodes THEN f[p] ELSE NoEntry

Parent(p) == SubSeq(p, 1, Len(p) - 1)

IsPrefix(p, q) == Len(p) <= Len(q) /\ SubSeq(q, 1, Len(p)) = p

\* The nodes strictly below p, and the names of p's entries.
Below(p) == {n \in Nodes : IsPrefix(p, n) /\ n # p}
Children(f, p) == {n \in Nodes : Parent(n) = p /\ f[n].kind # "none"}

\* Path resolution: walks rest from the resolved directory cur, following
\* a symbolic link at every component but, unless follow, the last one.
\* Gives the place the path names (its entry may be absent) or an error.
RECURSIVE Walk(_, _, _, _, _)
Walk(f, cur, rest, follow, fuel) ==
  IF rest = <<>> THEN [err |-> "", path |-> cur]
  ELSE IF Lookup(f, cur).kind = "none" THEN [err |-> "ENOENT", path |-> cur]
  ELSE IF Lookup(f, cur).kind # "dir" THEN [err |-> "ENOTDIR", path |-> cur]
  ELSE LET nxt == Append(cur, Head(rest))
           e == Lookup(f, nxt)
       IN IF e.kind = "link" /\ (Len(rest) > 1 \/ follow)
          THEN IF fuel = 0 THEN [err |-> "ELOOP", path |-> nxt]
               ELSE LET t == Walk(f, <<>>, e.to, TRUE, fuel - 1)
                    IN IF t.err # "" THEN t
                       ELSE Walk(f, t.path, Tail(rest), follow, fuel)
          ELSE Walk(f, nxt, Tail(rest), follow, fuel)

\* More link hops than there are nodes is a loop.
Place(f, p, follow) == Walk(f, <<>>, p, follow, Cardinality(Nodes))

\* The result of a native call: the filesystem after it, the error code
\* ("" for none) and the value (a string, or a list of names).
Native(f, err, val) == [fs |-> f, err |-> err, val |-> val]

\* fs.access(path, R_OK)
access(f, p) ==
  LET w == Place(f, p, TRUE)
      e == Lookup(f, w.path)
  IN IF w.err # "" THEN Native(f, w.err, <<>>)
     ELSE IF e.kind = "none" THEN Native(f, "ENOENT", <<>>)
     ELSE IF e.kind = "file" /\ ~e.r THEN Native(f, "EACCES", <<>>)
     ELSE Native(f, "", <<>>)

\* fs.lstat(path): the kind of the entry, links not followed.
lstat(f, p) ==
  LET w == Place(f, p, FALSE)
      e == Lookup(f, w.path)
  IN IF w.err # "" THEN Native(f, w.err, <<>>)
     ELSE IF e.kind = "none" THEN Native(f, "ENOENT", <<>>)
     ELSE Native(f, "", <<e.kind>>)

\* fs.readFile(path, 'utf8')
readFile(f, p) ==
  LET w == Place(f, p, TRUE)
      e == Lookup(f, w.path)
  IN IF w.err # "" THEN Native(f, w.err, <<>>)
     ELSE IF e.kind = "none" THEN Native(f, "ENOENT", <<>>)
     ELSE IF e.kind = "dir" THEN Native(f, "EISDIR", <<>>)
     ELSE IF e.kind = "other" THEN Native(f, "ENXIO", <<>>)
     ELSE IF ~e.r THEN Native(f, "EACCES", <<>>)
     ELSE Native(f, "", FromUtf8(e.data))

\* Opening path for writing, creating it when absent: the node written, or
\* an error.
OpenForWrite(f, p) ==
  LET w == Place(f, p, TRUE)
      e == Lookup(f, w.path)
  IN IF w.err # "" THEN w
     ELSE IF e.kind = "dir" THEN [err |-> "EISDIR", path |-> w.path]
     ELSE IF e.kind = "other" THEN [err |-> "ENXIO", path |-> w.path]
     ELSE IF Lookup(f, Parent(w.path)).kind # "dir"
       THEN [err |-> "ENOENT", path |-> w.path]
     ELSE w

\* fs.writeFile(path, data, 'utf8'): truncates, then writes.
writeFile(f, p, d) ==
  LET w == OpenForWrite(f, p)
      e == Lookup(f, w.path)
  IN IF w.err # "" THEN Native(f, w.err, <<>>)
     ELSE Native([f EXCEPT ![w.path] =
                    FileEntry(Utf8(d), IF e.kind = "file" THEN e.r ELSE TRUE)],
                 "", <<>>)

\* fs.appendFile(path, data, 'utf8')
appendFile(f, p, d) ==
  LET w == OpenForWrite(f, p)
      e == Lookup(f, w.path)
  IN IF w.err # "" THEN Native(f, w.err, <<>>)
     ELSE Native([f EXCEPT ![w.path] =
                    FileEntry(e.data \o Utf8(d), IF e.kind = "file" THEN e.r ELSE TRUE)],
                 "", <<>>)

\* fs.unlink(path)
unlink(f, p) ==
  LET w == Place(f, p, FALSE)
      e == Lookup(f, w.path)
  IN IF w.err # "" THEN Native(f, w.err, <<>>)
     ELSE IF e.kind = "none" THEN Native(f, "ENOENT", <<>>)
     ELSE IF e.kind = "dir" THEN Native(f, "EISDIR", <<>>)
     ELSE Native([f EXCEPT ![w.path] = NoEntry], "", <<>>)

\* fs.rmdir(path): removes an empty directory.
rmdir(f, p) ==
  LET w == Place(f, p, FALSE)
      e == Lookup(f, w.path)
  IN IF w.err # "" THEN Native(f, w.err, <<>>)
     ELSE IF e.kind = "none" THEN Native(f, "ENOENT", <<>>)
     ELSE IF e.kind # "dir" THEN Native(f, "ENOTDIR", <<>>)
     ELSE IF w.path = <<>> THEN Native(f, "EINVAL", <<>>)
     ELSE IF Children(f, w.path) # {} THEN Native(f, "ENOTEMPTY", <<>>)
     ELSE Native([f EXCEPT ![w.path] = NoEntry], "", <<>>)

\* The owner's read bit of a mode.
ReadBit(mode) == mode \in {"0o644"}

\* fs.chmod(path, mode)
chmod(f, p, mode) ==
  LET w == Place(f, p, TRUE)
      e == Lookup(f, w.path)
  IN IF w.err # "" THEN Native(f, w.err, <<>>)
     ELSE IF e.kind = "none" THEN Native(f, "ENOENT", <<>>)
     ELSE IF e.kind = "file"
       THEN Native([f EXCEPT ![w.path] = FileEntry(e.data, ReadBit(mode))], "", <<>>)
     ELSE Native(f, "", <<>>)

\* fs.copyFile(source, destination)
copyFile(f, s, d) ==
  LET ws == Place(f, s, TRUE)
      es == Lookup(f, ws.path)
      wd == OpenForWrite(f, d)
  IN IF ws.err # "" THEN Native(f, ws.err, <<>>)
     ELSE IF es.kind = "none" THEN Native(f, "ENOENT", <<>>)
     ELSE IF es.kind = "dir" THEN Native(f, "EISDIR", <<>>)
     ELSE IF es.kind = "other" THEN Native(f, "ENOTSUP", <<>>)
     ELSE IF ~es.r THEN Native(f, "EACCES", <<>>)
     ELSE IF wd.err # "" THEN Native(f, wd.err, <<>>)
     ELSE IF wd.path = ws.path THEN Native(f, "", <<>>)
     ELSE Native([f EXCEPT ![wd.path] = FileEntry(es.data, TRUE)], "", <<>>)

\* fs.mkdir(path, mode)
mkdir(f, p) ==
  LET w == Place(f, p, FALSE)
      e == Lookup(f, w.path)
  IN IF w.err # "" THEN Native(f, w.err, <<>>)
     ELSE IF e.kind # "none" THEN Native(f, "EEXIST", <<>>)
     ELSE IF Lookup(f, Parent(w.path)).kind # "dir" THEN Native(f, "ENOENT", <<>>)
     ELSE Native([f EXCEPT ![w.path] = DirEntry], "", <<>>)

\* The names in a set of nodes, in the order ord lists them.
RECURSIVE NamesIn(_, _)
NamesIn(S, ord) ==
  IF ord = <<>> THEN <<>>
  ELSE IF \E n \in S : n[Len(n)] = Head(ord)
    THEN <<Head(ord)>> \o NamesIn(S, Tail(ord))
    ELSE NamesIn(S, Tail(ord))

\* fs.readdir(path): the names of the entries, in the order the native
\* layer lists them (ord).
readdir(f, p, ord) ==
  LET w == Place(f, p, TRUE)
      e == Lookup(f, w.path)
  IN IF w.err # "" THEN Native(f, w.err, <<>>)
     ELSE IF e.kind = "none" THEN Native(f, "ENOENT", <<>>)
     ELSE IF e.kind # "dir" THEN Native(f, "ENOTDIR", <<>>)
     ELSE Native(f, "", NamesIn(Children(f, w.path), ord))

\* The tree at o moved to n.
Moved(f, o, n) ==
  [x \in Nodes |->
     IF IsPrefix(n, x)
       THEN Lookup(f, o \o SubSeq(x, Len(n) + 1, Len(x)))
     ELSE IF IsPrefix(o, x) THEN NoEntry
     ELSE f[x]]

\* fs.rename(oldPath, newPath)
rename(f, o, n) ==
  LET wo == Place(f, o, FALSE)
      eo == Lookup(f, wo.path)
      wn == Place(f, n, FALSE)
      en == Lookup(f, wn.path)
  IN IF wo.err # "" THEN Native(f, wo.err, <<>>)
     ELSE IF eo.kind = "none" THEN Native(f, "ENOENT", <<>>)
     ELSE IF wn.err # "" THEN Native(f, wn.err, <<>>)
     ELSE IF Lookup(f, Parent(wn.path)).kind # "dir" THEN Native(f, "ENOENT", <<>>)
     ELSE IF wn.path = wo.path THEN Native(f, "", <<>>)
     ELSE IF IsPrefix(wo.path, wn.path) THEN Native(f, "EINVAL", <<>>)
     ELSE IF en.kind = "dir" /\ eo.kind # "dir" THEN Native(f, "EISDIR", <<>>)
     ELSE IF en.kind \notin {"none", "dir"} /\ eo.kind = "dir"
       THEN Native(f, "ENOTDIR", <<>>)
     ELSE IF en.kind = "dir" /\ Children(f, wn.path) # {}
       THEN Native(f, "ENOTEMPTY", <<>>)
     ELSE Native(Moved(f, wo.path, wn.path), "", <<>>)

(***************************************************************************)
(* The Local driver.  Each method is the function from the filesystem it   *)
(* starts on to the filesystem it leaves and the way its promise settles,  *)
(* when nothing else runs between its native calls.                        *)
(***************************************************************************)
\* How a promise settled: kind is "ok", one of the driver's three error
\* classes, or "native" (an error of the native layer, its code in code).
Settled(f, kind, code, val) == [fs |-> f, kind |-> kind, code |-> code, val |-> val]
Ok(f, val) == Settled(f, "ok", "", val)
Throw(f, kind) == Settled(f, kind, "", <<>>)

\* promisify(fs.<call>)(...): resolves with the value, rejects with the error.
Promisified(n) ==
  IF n.err = "" THEN Ok(n.fs, n.val) ELSE Settled(n.fs, "native", n.err, <<>>)

True == <<"true">>
False == <<"false">>
Bool(b) == IF b THEN True ELSE False

\* Local.exists
Local_existsLstat(f, p) == Ok(f, Bool(lstat(f, p).err = ""))

\* The calls of resolve its callback makes, in order: resolve(false) does
\* not return, so resolve(true) follows it; a promise keeps the first.
ExistsResolves(f, p) ==
  IF access(f, p).err # "" THEN <<False, True>> ELSE <<True>>

Local_existsLastWins(f, p) ==
  Ok(f, ExistsResolves(f, p)[Len(ExistsResolves(f, p))])

Local_exists(f, p) == Ok(f, Head(ExistsResolves(f, p)))

\* Local.isDirectory, Local.isFile, Local.isSymbolicLink: exists, then lstat.
StatIs(f, p, kind) ==
  IF Local_exists(f, p).val = False THEN Throw(f, "FileDoesntExist")
  ELSE LET st == lstat(f, p)
       IN IF st.err # "" THEN Settled(f, "native", st.err, <<>>)
          ELSE Ok(f, Bool(st.val = <<kind>>))

Local_isDirectory(f, p) == StatIs(f, p, "dir")
Local_isFile(f, p) == StatIs(f, p, "file")
Local_isSymbolicLink(f, p) == StatIs(f, p, "link")

\* Local.read
Local_read(f, p) ==
  IF Local_exists(f, p).val = False THEN Throw(f, "FileDoesntExist")
  ELSE LET isF == Local_isFile(f, p)
           isL == Local_isSymbolicLink(f, p)
       IN IF isF.kind # "ok" THEN isF
          ELSE IF isF.val = False /\ isL.kind # "ok" THEN isL
          ELSE IF isF.val = False /\ isL.val = False THEN Throw(f, "InvalidPath")
          ELSE Promisified(readFile(f, p))

\* Local.write
Local_writeAppends(f, p, d) ==
  LET isF == Local_isFile(f, p)
  IN IF isF.kind # "ok" THEN isF
     ELSE IF isF.val = False THEN Throw(f, "InvalidPath")
     ELSE Promisified(appendFile(f, p, d))

Local_write(f, p, d) ==
  LET isF == Local_isFile(f, p)
  IN IF isF.kind # "ok" THEN isF
     ELSE IF isF.val = False THEN Throw(f, "InvalidPath")
     ELSE Promisified(writeFile(f, p, d))

\* Local.delete
Local_deleteTree(f, p) ==
  IF Local_exists(f, p).val = False THEN Throw(f, "FileDoesntExist")
  ELSE IF lstat(f, p).val = <<"dir">>
    THEN Ok([x \in Nodes |->
               IF IsPrefix(Place(f, p, FALSE).path, x) THEN NoEntry ELSE f[x]],
            <<>>)
  ELSE Promisified(unlink(f, p))

Local_delete(f, p) ==
  IF Local_exists(f, p).val = False THEN Throw(f, "FileDoesntExist")
  ELSE LET isF == Local_isFile(f, p)
           isL == Local_isSymbolicLink(f, p)
           isD == Local_isDirectory(f, p)
       IN IF isF.kind # "ok" THEN isF
          ELSE IF isF.val = True THEN Promisified(unlink(f, p))
          ELSE IF isL.kind # "ok" THEN isL
          ELSE IF isL.val = True THEN Promisified(unlink(f, p))
          ELSE IF isD.kind # "ok" THEN isD
          ELSE IF isD.val = True THEN Promisified(rmdir(f, p))
          ELSE Throw(f, "InvalidPath")

\* Local.readDir
Local_readDir(f, p, ord) ==
  IF Local_exists(f, p).val = False THEN Throw(f, "FileDoesntExist")
  ELSE Promisified(readdir(f, p, ord))

\* Local.deleteAll: the loop over the listed names, then the delete of the
\* path itself.  fuel bounds the depth of the recursion (a link into one of
\* its own ancestors recurses without end).
RECURSIVE Local_deleteAllFrom(_, _, _, _, _)
Local_deleteAllFrom(f, p, files, ord, fuel) ==
  IF files = <<>> THEN Local_delete(f, p)
  ELSE LET curr == Append(p, Head(files))
           isF == Local_isFile(f, curr)
           sub == IF isF.kind # "ok" THEN isF
                  ELSE IF isF.val = True THEN Local_delete(f, curr)
                  ELSE IF fuel = 0 THEN Settled(f, "native", "ELOOP", <<>>)
                  ELSE LET ls == Local_readDir(f, curr, ord)
                       IN IF ls.kind # "ok" THEN ls
                          ELSE Local_deleteAllFrom(f, curr, ls.val, ord, fuel - 1)
       IN IF sub.kind # "ok" THEN sub
          ELSE Local_deleteAllFrom(sub.fs, p, Tail(files), ord, fuel)

Local_deleteAllShallow(f, p, ord) ==
  LET ls == Local_readDir(f, p, ord)
  IN IF ls.kind # "ok" THEN ls ELSE Local_delete(f, p)

Local_deleteAll(f, p, ord) ==
  LET ls == Local_readDir(f, p, ord)
  IN IF ls.kind # "ok" THEN ls
     ELSE Local_deleteAllFrom(f, p, ls.val, ord, Cardinality(Nodes))

\* Local.append
Local_append(f, p, d) == Promisified(appendFile(f, p, d))

\* Local.chmod
Local_chmod(f, p, mode) ==
  IF Local_exists(f, p).val = False THEN Throw(f, "FileDoesntExist")
  ELSE Promisified(chmod(f, p, mode))

\* Local.copy
Local_copyNoCheck(f, s, d, overwrite) ==
  IF Local_exists(f, s).val = False THEN Throw(f, "FileDoesntExist")
  ELSE Promisified(copyFile(f, s, d))

Local_copy(f, s, d, overwrite) ==
  IF Local_exists(f, s).val = False THEN Throw(f, "FileDoesntExist")
  ELSE IF ~overwrite /\ Local_exists(f, d).val = True THEN Throw(f, "FileExists")
  ELSE Promisified(copyFile(f, s, d))

\* Local.createDir, recursively = false
Local_createDirNoCheck(f, p) == Promisified(mkdir(f, p))

Local_createDir(f, p) ==
  IF Local_exists(f, p).val = True THEN Throw(f, "FileExists")
  ELSE Promisified(mkdir(f, p))

\* Local.createDir, recursively = true: the directories it calls fs.mkdir
\* for (every ancestor component, left to right, and the path), and how the
\* promise settles: resolve(true) runs before any callback does, so a later
\* reject(err) has no effect.
Segments(p) == {SubSeq(p, 1, i) : i \in 1..Len(p)}

Local_createDirRecursivelyAwaits(f, p) ==
  IF \E d \in Segments(p) : mkdir(f, d).err \notin {"", "EEXIST"}
    THEN Settled(f, "native", "ENOENT", <<>>)
    ELSE Ok(f, True)

Local_createDirRecursivelyChecked(f, p) ==
  IF Local_exists(f, p).val = True THEN Throw(f, "FileExists") ELSE Ok(f, True)

Local_createDirRecursively(f, p) == Ok(f, True)

\* Local.rename
Local_renameNoCheck(f, o, n) ==
  IF Local_exists(f, o).val = False THEN Throw(f, "FileDoesntExist")
  ELSE Promisified(rename(f, o, n))

Local_renameLateCheck(f, o, n) ==
  IF Local_exists(f, o).val = False THEN Throw(f, "FileDoesntExist")
  ELSE IF Local_exists(f, n).val = True
    THEN Throw(rename(f, o, n).fs, "FileExists")
  ELSE Promisified(rename(f, o, n))

Local_rename(f, o, n) ==
  IF Local_exists(f, o).val = False THEN Throw(f, "FileDoesntExist")
  ELSE IF Local_exists(f, n).val = True THEN Throw(f, "FileExists")
  ELSE Promisified(rename(f, o, n))

\* Calls of rename and copy that run concurrently, and a call not made yet.
Tasks == {1, 2}
NoTask == [op |-> "none", src |-> <<>>, dst |-> <<>>, pc |-> "idle"]

\* No Local call yet.
NoLast == [op |-> "none", args |-> <<>>, kind |-> "ok", code |-> "", val |-> <<>>]

\* The Local driver at rest on an empty working directory.
LocalIdle ==
  /\ fs = EmptyFs
  /\ inflight = {}
  /\ last = NoLast
  /\ fs0 = EmptyFs
  /\ prev = [last |-> NoLast, fs0 |-> EmptyFs]
  /\ mkdirs = <<>>
  /\ tasks = [t \in Tasks |-> NoTask]

(***************************************************************************)
(* The facade's methods.                                                   *)
(***************************************************************************)
\* The i-th argument of a call, undefined when it was not passed.
Arg(a, i) == IF i <= Len(a) THEN a[i] ELSE Undefined

\* A default parameter value: used when the argument is undefined.
Default(v, d) == IF v = Undefined THEN d ELSE v

\* Filesystem._resolveDriver: the temporary driver if one is set, else the
\* base one; the temporary driver is reset.
ResolveDriverKeep(temp, base) ==
  [driver |-> IF temp # Null THEN temp ELSE base, temp |-> temp]

ResolveDriverBase(temp, base) ==
  [driver |-> base, temp |-> Null]

ResolveDriver(temp, base) ==
  [driver |-> IF temp # Null THEN temp ELSE base, temp |-> Null]

\* Filesystem.in: the assignment to _tempDriver.
InFirstWins(temp, d) == IF temp # Null THEN temp ELSE d

In_(temp, d) == d

\* The arguments each facade method hands to the driver's method.
ForwardArgsNoDefault(m, a) ==
  CASE m \in {"read", "exists", "isDirectory", "isFile", "isSymbolicLink",
              "delete", "readDir"} -> <<Arg(a, 1)>>
    [] m \in {"write", "append", "chmod", "rename"} -> <<Arg(a, 1), Arg(a, 2)>>
    [] OTHER -> <<Arg(a, 1), Arg(a, 2), Arg(a, 3)>>

ForwardArgs(m, a) ==
  CASE m = "read" -> <<Arg(a, 1)>>
    [] m = "write" -> <<Arg(a, 1), Arg(a, 2)>>
    [] m = "exists" -> <<Arg(a, 1)>>
    [] m = "isDirectory" -> <<Arg(a, 1)>>
    [] m = "isFile" -> <<Arg(a, 1)>>
    [] m = "isSymbolicLink" -> <<Arg(a, 1)>>
    [] m = "delete" -> <<Arg(a, 1)>>
    [] m = "append" -> <<Arg(a, 1), Arg(a, 2)>>
    [] m = "chmod" -> <<Arg(a, 1), Arg(a, 2)>>
    [] m = "copy" -> <<Arg(a, 1), Arg(a, 2), Default(Arg(a, 3), "true")>>
    [] m = "createDir" ->
         <<Arg(a, 1), Default(Arg(a, 2), "0o777"), Default(Arg(a, 3), "false")>>
    [] m = "readDir" -> <<Arg(a, 1)>>
    [] m = "rename" -> <<Arg(a, 1), Arg(a, 2)>>

\* The driver calls a facade method makes once the driver is resolved: the
\* same-named method of that driver, once.
ForwardTwice(m, a, d) ==
  <<[driver |-> d, method |-> m, args |-> ForwardArgs(m, a)],
    [driver |-> d, method |-> m, args |-> ForwardArgs(m, a)]>>

Forward(m, a, d) ==
  <<[driver |-> d, method |-> m, args |-> ForwardArgs(m, a)]>>

\* What a facade method returns: the driver's promise itself.
FacadeReturnCaught(r) == IF r.kind = "failure" THEN [kind |-> "value", v |-> Undefined] ELSE r

FacadeReturn(r) == r

(***************************************************************************)
(* History of facade events: a sliding window of the last three.           *)
(***************************************************************************)
NoEvent == [kind |-> "none", chain |-> 0, drv |-> Null, want |-> Null, out |-> "-"]

InEvent(c, d) ==
  [kind |-> "in", chain |-> c, drv |-> d, want |-> Null, out |-> "-"]

\* An operation of chain c, which ran against d while the chain had asked
\* for w (Null: for nothing).
OpEvent(c, d, w) ==
  [kind |-> "op", chain |-> c, drv |-> d, want |-> w, out |-> "pending"]

Push(h, e) == <<h[2], h[3], e>>

\* The position in h of chain c's operation that is in flight, 0 when it has
\* left the window.
PendingAt(h, c) ==
  LET S == {i \in 1..3 : h[i].kind = "op" /\ h[i].chain = c /\ h[i].out = "pending"}
  IN IF S = {} THEN 0 ELSE CHOOSE i \in S : \A j \in S : j <= i

(***************************************************************************)
(* Facade actions.                                                         *)
(***************************************************************************)
\* new Filesystem(driver)
FacadeInit ==
  /\ driver = "A"
  /\ tempDriver = Null
  /\ pc = [c \in Chains |-> "idle"]
  /\ want = [c \in Chains |-> Null]
  /\ req = NoRequest
  /\ sent = <<>>
  /\ gave = NoOutcome
  /\ got = NoOutcome
  /\ hist = <<NoEvent, NoEvent, NoEvent>>

Init == FacadeInit /\ LocalIdle

\* Chain c calls fs.in(d).
In(c, d) ==
  /\ pc[c] \in {"idle", "chose"}
  /\ tempDriver' = In_(tempDriver, d)
  /\ pc' = [pc EXCEPT ![c] = "chose"]
  /\ want' = [want EXCEPT ![c] = d]
  /\ hist' = Push(hist, InEvent(c, d))
  /\ UNCHANGED <<driver, req, sent, gave, got>>
  /\ UNCHANGED localVars

\* Chain c calls the facade method m with arguments a: the driver is
\* resolved and its method called, synchronously; the promise is pending.
Invoke(c, m, a) ==
  /\ pc[c] \in {"idle", "chose"}
  /\ LET r == ResolveDriver(tempDriver, driver)
     IN /\ tempDriver' = r.temp
        /\ req' = [method |-> m, args |-> a]
        /\ sent' = Forward(m, a, r.driver)
        /\ hist' = Push(hist, OpEvent(c, r.driver, want[c]))
  /\ pc' = [pc EXCEPT ![c] = "called"]
  /\ want' = [want EXCEPT ![c] = Null]
  /\ UNCHANGED <<driver, gave, got>>
  /\ UNCHANGED localVars

\* The driver's promise of chain c's operation settles with o, and the
\* chain resumes with what the facade returned.
Settle(c, o) ==
  /\ pc[c] = "called"
  /\ gave' = o
  /\ got' = FacadeReturn(o)
  /\ pc' = [pc EXCEPT ![c] = "idle"]
  /\ hist' = LET i == PendingAt(hist, c)
             IN IF i = 0 THEN hist ELSE [hist EXCEPT ![i].out = o.kind]
  /\ UNCHANGED <<driver, tempDriver, want, req, sent>>
  /\ UNCHANGED localVars

\* The methods the chains of Spec call: one that forwards its arguments as
\* they are and one with a default parameter.
ChainMethods == {"read", "copy"}

Next ==
  \/ \E c \in Chains, d \in Drivers : In(c, d)
  \/ \E c \in Chains, m \in ChainMethods : Invoke(c, m, <<"p", "q">>)
  \/ \E c \in Chains, o \in Outcomes : Settle(c, o)

Spec == Init /\ [][Next]_vars

\* One chain calling every method with every argument list.
NextForward ==
  \/ \E d \in Drivers : In(1, d)
  \/ \E m \in Methods : \E a \in CallerArgs(m) : Invoke(1, m, a)
  \/ \E o \in Outcomes : Settle(1, o)

SpecForward == Init /\ [][NextForward]_vars

(***************************************************************************)
(* Local driver actions: one call of a method, from its start to the       *)
(* settlement of its promise.                                              *)
(***************************************************************************)
\* Orders in which the native layer may list a directory.
Orders == {<<"a", "b">>, <<"b", "a">>}

\* Modes passed to chmod: with and without the owner's read bit.
Modes == {"0o644", "0o200"}

\* The place a path names is one of the model's nodes (or the path fails
\* to resolve).
Fits(f, p) ==
  /\ Place(f, p, TRUE).err = "" => Place(f, p, TRUE).path \in Nodes
  /\ Place(f, p, FALSE).err = "" => Place(f, p, FALSE).path \in Nodes

\* Everything below o has a node to move to below n.
RenameFits(f, o, n) ==
  /\ Fits(f, o) /\ Fits(f, n)
  /\ LET ro == Place(f, o, FALSE)
         rn == Place(f, n, FALSE)
     IN (ro.err = "" /\ rn.err = "") =>
          \A x \in Below(ro.path) :
            f[x].kind # "none" =>
              rn.path \o SubSeq(x, Len(ro.path) + 1, Len(x)) \in Nodes

\* The call op(args) settled as s.
Record(op, args, s) ==
  /\ fs' = s.fs
  /\ last' = [op |-> op, args |-> args, kind |-> s.kind, code |-> s.code,
              val |-> s.val]
  /\ fs0' = fs
  /\ prev' = [last |-> last, fs0 |-> fs0]
  /\ UNCHANGED <<mkdirs, facadeVars>>

\* A call that runs with nothing else between its steps.
Done(op, args, s) == Record(op, args, s) /\ UNCHANGED tasks

Read(p) ==
  /\ Fits(fs, p)
  /\ Done("read", <<p>>, Local_read(fs, p))
  /\ UNCHANGED inflight

Write(p, d) ==
  /\ Fits(fs, p)
  /\ Done("write", <<p, d>>, Local_write(fs, p, d))
  /\ UNCHANGED inflight

Exists(p) ==
  /\ Fits(fs, p)
  /\ Done("exists", <<p>>, Local_exists(fs, p))
  /\ UNCHANGED inflight

IsDirectory(p) ==
  /\ Fits(fs, p)
  /\ Done("isDirectory", <<p>>, Local_isDirectory(fs, p))
  /\ UNCHANGED inflight

IsFile(p) ==
  /\ Fits(fs, p)
  /\ Done("isFile", <<p>>, Local_isFile(fs, p))
  /\ UNCHANGED inflight

IsSymbolicLink(p) ==
  /\ Fits(fs, p)
  /\ Done("isSymbolicLink", <<p>>, Local_isSymbolicLink(fs, p))
  /\ UNCHANGED inflight

Delete(p) ==
  /\ Fits(fs, p)
  /\ Done("delete", <<p>>, Local_delete(fs, p))
  /\ UNCHANGED inflight

\* ord: the order in which the native layer lists directories.
DeleteAll(p, ord) ==
  /\ Fits(fs, p)
  /\ Done("deleteAll", <<p>>, Local_deleteAll(fs, p, ord))
  /\ UNCHANGED inflight

\* The contents stay within MaxLen letters.
Append_(p, d) ==
  /\ Fits(fs, p)
  /\ Len(Lookup(fs, Place(fs, p, TRUE).path).data) + Len(d) <= MaxLen
  /\ Done("append", <<p, d>>, Local_append(fs, p, d))
  /\ UNCHANGED inflight

\* The modes of directories are not modelled: chmod is called on other paths.
Chmod(p, mode) ==
  /\ Fits(fs, p)
  /\ Lookup(fs, Place(fs, p, TRUE).path).kind # "dir"
  /\ Done("chmod", <<p, <<mode>>>>, Local_chmod(fs, p, mode))
  /\ UNCHANGED inflight

Copy(s, d, overwrite) ==
  /\ Fits(fs, s) /\ Fits(fs, d)
  /\ Done("copy", <<s, d, Bool(overwrite)>>, Local_copy(fs, s, d, overwrite))
  /\ UNCHANGED inflight

\* createDir(p, mode, false)
CreateDir(p) ==
  /\ Fits(fs, p)
  /\ Done("createDir", <<p, False>>, Local_createDir(fs, p))
  /\ UNCHANGED inflight

\* createDir(p, mode, true): the native mkdir calls are issued and the
\* promise settles; the calls complete later, one by one (MkdirDone).  Two
\* calls in flight for one directory count once: the second to complete
\* finds the directory and changes nothing.
CreateDirRecursively(p) ==
  /\ \A d \in Segments(p) : Fits(fs, d)
  /\ Done("createDir", <<p, True>>, Local_createDirRecursively(fs, p))
  /\ inflight' = inflight \cup Segments(p)

\* The native layer completes one of the mkdir calls in flight, in whatever
\* order its thread pool runs them; the callback ignores EEXIST and calls
\* reject for any other error, on a promise that is already resolved.
MkdirDone(d) ==
  /\ d \in inflight
  /\ fs' = mkdir(fs, d).fs
  /\ inflight' = inflight \ {d}
  /\ mkdirs' = Append(mkdirs, [dir |-> d, err |-> mkdir(fs, d).err])
  /\ UNCHANGED <<last, fs0, prev, tasks, facadeVars>>

ReadDir(p, ord) ==
  /\ Fits(fs, p)
  /\ Done("readDir", <<p>>, Local_readDir(fs, p, ord))
  /\ UNCHANGED inflight

Rename(o, n) ==
  /\ RenameFits(fs, o, n)
  /\ Done("rename", <<o, n>>, Local_rename(fs, o, n))
  /\ UNCHANGED inflight

\* Filesystems the driver is started on: every tree over the nodes whose
\* entries are files (of any contents, readable or not), directories,
\* symbolic links to LinkTargets, or entries that are none of these.
\* An entry is only in a directory.
LinkTargets == {<<"b">>}

Entries ==
  {NoEntry, DirEntry, OtherEntry}
    \cup {FileEntry(d, r) : d \in Strings, r \in BOOLEAN}
    \cup {LinkEntry(t) : t \in LinkTargets}

WellFormed(f) ==
  \A n \in Nodes : f[n].kind # "none" => Lookup(f, Parent(n)).kind = "dir"

Trees == {f \in [Nodes -> Entries] : WellFormed(f)}

\* One call on any tree.
InitLocal ==
  /\ FacadeInit
  /\ fs \in Trees
  /\ inflight = {}
  /\ last = NoLast
  /\ fs0 = fs
  /\ prev = [last |-> NoLast, fs0 |-> fs]
  /\ mkdirs = <<>>
  /\ tasks = [t \in Tasks |-> NoTask]

Fresh == last.op = "none"

NextLocal ==
  \/ \E p \in Paths : Fresh /\ Read(p)
  \/ \E p \in Paths, d \in Texts : Fresh /\ Write(p, d)
  \/ \E p \in Paths : Fresh /\ Exists(p)
  \/ \E p \in Paths : Fresh /\ IsDirectory(p)
  \/ \E p \in Paths : Fresh /\ IsFile(p)
  \/ \E p \in Paths : Fresh /\ IsSymbolicLink(p)
  \/ \E p \in Paths : Fresh /\ Delete(p)
  \/ \E p \in Paths, ord \in Orders : Fresh /\ DeleteAll(p, ord)
  \/ \E p \in Paths, d \in Texts : Fresh /\ Append_(p, d)
  \/ \E p \in Paths, mode \in Modes : Fresh /\ Chmod(p, mode)
  \/ \E s \in Paths, d \in Paths, overwrite \in BOOLEAN :
       Fresh /\ Copy(s, d, overwrite)
  \/ \E p \in Paths : Fresh /\ CreateDir(p)
  \/ \E p \in Paths : Fresh /\ CreateDirRecursively(p)
  \/ \E d \in Nodes : MkdirDone(d)
  \/ \E p \in Paths, ord \in Orders : Fresh /\ ReadDir(p, ord)
  \/ \E o \in Paths, n \in Paths : Fresh /\ Rename(o, n)

SpecLocal == InitLocal /\ [][NextLocal]_vars

\* Up to two createDir calls in sequence, on every tree of directories,
\* empty files and links.
MkdirTrees ==
  {f \in [Nodes -> {NoEntry, DirEntry, FileEntry(<<>>, TRUE)}
                     \cup {LinkEntry(t) : t \in LinkTargets}] : WellFormed(f)}

InitMkdir ==
  /\ FacadeInit
  /\ fs \in MkdirTrees
  /\ inflight = {}
  /\ last = NoLast
  /\ fs0 = fs
  /\ prev = [last |-> NoLast, fs0 |-> fs]
  /\ mkdirs = <<>>
  /\ tasks = [t \in Tasks |-> NoTask]

Second == prev.last.op = "none"

NextMkdir ==
  \/ \E p \in Paths : Second /\ CreateDir(p)
  \/ \E p \in Paths : Second /\ CreateDirRecursively(p)
  \/ \E d \in Nodes : MkdirDone(d)

SpecMkdir == InitMkdir /\ [][NextMkdir]_vars

(***************************************************************************)
(* rename and copy(src, dst, false) step by step: each await of an         *)
(* existence check is a point where another call may run.                  *)
(***************************************************************************)
RaceSources == {<<"a", "a">>, <<"a", "b">>}
RaceDests == {<<"b">>, <<"a", "b">>}

RaceArgs(t) ==
  IF tasks[t].op = "copy" THEN <<tasks[t].src, tasks[t].dst, False>>
  ELSE <<tasks[t].src, tasks[t].dst>>

\* The call starts and awaits exists(source).
RaceBegin(t, op, s, d) ==
  /\ tasks[t].pc = "idle"
  /\ tasks' = [tasks EXCEPT ![t] = [op |-> op, src |-> s, dst |-> d, pc |-> "src"]]
  /\ UNCHANGED <<fs, inflight, last, fs0, prev, mkdirs, facadeVars>>

\* exists(source) has settled: throw, or go on to await exists(destination).
RaceCheckSource(t) ==
  /\ tasks[t].pc = "src"
  /\ Fits(fs, tasks[t].src)
  /\ IF Local_exists(fs, tasks[t].src).val = False
       THEN /\ Record(tasks[t].op, RaceArgs(t), Throw(fs, "FileDoesntExist"))
            /\ tasks' = [tasks EXCEPT ![t].pc = "settled"]
            /\ UNCHANGED inflight
       ELSE /\ tasks' = [tasks EXCEPT ![t].pc = "dst"]
            /\ UNCHANGED <<fs, inflight, last, fs0, prev, mkdirs, facadeVars>>

\* exists(destination) has settled: throw, or go on to the native call.
RaceCheckDestination(t) ==
  /\ tasks[t].pc = "dst"
  /\ Fits(fs, tasks[t].dst)
  /\ IF Local_exists(fs, tasks[t].dst).val = True
       THEN /\ Record(tasks[t].op, RaceArgs(t), Throw(fs, "FileExists"))
            /\ tasks' = [tasks EXCEPT ![t].pc = "settled"]
            /\ UNCHANGED inflight
       ELSE /\ tasks' = [tasks EXCEPT ![t].pc = "native"]
            /\ UNCHANGED <<fs, inflight, last, fs0, prev, mkdirs, facadeVars>>

\* fs.rename or fs.copyFile runs, and the call settles with its result.
RaceNative(t) ==
  /\ tasks[t].pc = "native"
  /\ RenameFits(fs, tasks[t].src, tasks[t].dst)
  /\ Record(tasks[t].op, RaceArgs(t),
            IF tasks[t].op = "copy"
              THEN Promisified(copyFile(fs, tasks[t].src, tasks[t].dst))
              ELSE Promisified(rename(fs, tasks[t].src, tasks[t].dst)))
  /\ tasks' = [tasks EXCEPT ![t].pc = "settled"]
  /\ UNCHANGED inflight

\* Trees of directories and readable files, two levels deep.
RaceTrees ==
  {f \in Trees : \A n \in Nodes :
     \/ f[n].kind = "none"
     \/ Len(n) <= 2 /\ f[n].kind = "dir"
     \/ Len(n) <= 2 /\ f[n].kind = "file" /\ f[n].r}

InitRace ==
  /\ FacadeInit
  /\ fs \in RaceTrees
  /\ inflight = {}
  /\ last = NoLast
  /\ fs0 = fs
  /\ prev = [last |-> NoLast, fs0 |-> fs]
  /\ mkdirs = <<>>
  /\ tasks = [t \in Tasks |-> NoTask]

\* Two calls of rename or copy(src, dst, false), and a createDir or append
\* that may run before either has settled.
NextRace ==
  \/ \E t \in Tasks, op \in {"rename", "copy"}, s \in RaceSources, d \in RaceDests :
       RaceBegin(t, op, s, d)
  \/ \E t \in Tasks : RaceCheckSource(t)
  \/ \E t \in Tasks : RaceCheckDestination(t)
  \/ \E t \in Tasks : RaceNative(t)
  \/ \E p \in RaceDests : Fresh /\ CreateDir(p)
  \/ \E p \in RaceDests, d \in Texts : Fresh /\ Append_(p, d)

SpecRace == InitRace /\ [][NextRace]_vars

\* A write, then a read with no other operation in between, on any tree.
NextWriteRead ==
  \/ \E p \in Paths, d \in Texts : Fresh /\ Write(p, d)
  \/ \E p \in Paths : last.op = "write" /\ Read(p)

SpecWriteRead == InitLocal /\ [][NextWriteRead]_vars

(***************************************************************************)
(* Properties of the facade.                                               *)
(***************************************************************************)
\* The driver the one-shot rule gives the operation at position i of the
\* window: the driver of the in() right before it, else the default.
Expected(i) == IF hist[i - 1].kind = "in" THEN hist[i - 1].drv ELSE driver

\* C1: one-shot override. An operation that directly follows in(d) runs
\* against d; an operation that follows anything else (an operation, or
\* nothing) runs against the default driver; and unless the latest facade
\* event is an in(), no override is pending.
C1_OneShotOverride ==
  /\ \A i \in 2..3 : hist[i].kind = "op" => hist[i].drv = Expected(i)
  /\ hist[3].kind # "in" => tempDriver = Null

\* in(B), an operation against B, then an operation against the default A.
C1_Witness ==
  /\ hist[1].kind = "in" /\ hist[1].drv = "B" /\ driver = "A"
  /\ hist[2].kind = "op" /\ hist[2].drv = "B"
  /\ hist[3].kind = "op" /\ hist[3].drv = "A"

\* C2: overrides are replaced, never queued. After in(d1), in(d2) the next
\* operation runs against d2 and leaves nothing pending, the operation after
\* an in()-operation pair runs against the default, and the pending override
\* is always the single driver of the latest in().
C2_OverrideReplaced ==
  /\ (hist[1].kind = "in" /\ hist[2].kind = "in" /\ hist[3].kind = "op")
       => (hist[3].drv = hist[2].drv /\ tempDriver = Null)
  /\ (hist[1].kind = "in" /\ hist[2].kind = "op" /\ hist[3].kind = "op")
       => hist[3].drv = driver
  /\ tempDriver \in Drivers \cup {Null}
  /\ hist[3].kind = "in" => tempDriver = hist[3].drv

\* in(B), in(C) and then an operation, against C.
C2_Witness ==
  /\ hist[1].kind = "in" /\ hist[1].drv = "B"
  /\ hist[2].kind = "in" /\ hist[2].drv = "C"
  /\ hist[3].kind = "op" /\ hist[3].drv = "C" /\ tempDriver = Null

\* C3: the override is cleared by the operation that consumes it also when
\* that operation fails. An operation that consumed an override and whose
\* driver call settled as a failure leaves no override pending (as long as
\* no in() follows it), and the operation after it runs against the default.
C3_ClearedOnFailure ==
  \A i \in 1..3 :
    (hist[i].kind = "op" /\ hist[i].want # Null /\ hist[i].out = "failure")
      => /\ i = 3 => tempDriver = Null
         /\ (i < 3 /\ hist[i + 1].kind = "op") => hist[i + 1].drv = driver

\* in(B), an operation against B that failed, the next operation against A.
C3_Witness ==
  /\ hist[2].kind = "op" /\ hist[2].want = "B" /\ hist[2].drv = "B"
  /\ hist[2].out = "failure"
  /\ hist[3].kind = "op" /\ hist[3].drv = "A" /\ driver = "A"

\* The position of the latest operation in the window, 0 when there is none.
LatestOp ==
  LET S == {i \in 1..3 : hist[i].kind = "op"}
  IN IF S = {} THEN 0 ELSE CHOOSE i \in S : \A j \in S : j <= i

\* The arguments the driver is to receive for a request: the caller's, with
\* copy's overwrite defaulting to true, createDir's mode to 0o777 and its
\* recursively to false.
PassedThrough(r) ==
  LET a == r.args
      third(d) == IF Len(a) < 3 \/ a[3] = Undefined THEN d ELSE a[3]
      second(d) == IF Len(a) < 2 \/ a[2] = Undefined THEN d ELSE a[2]
  IN CASE r.method = "copy" -> <<a[1], a[2], third("true")>>
       [] r.method = "createDir" -> <<a[1], second("0o777"), third("false")>>
       [] OTHER -> a

\* C4: the facade is a pure pass-through. The latest operation made exactly
\* one driver call, of the method of its own name, on the driver the one-shot
\* rule selects, with the caller's arguments (defaults filled in); and what
\* the caller received is what the driver's promise settled with.
C4_PassThrough ==
  /\ req.method # Null =>
       /\ Len(sent) = 1
       /\ sent[1].method = req.method
       /\ sent[1].args = PassedThrough(req)
       /\ LatestOp >= 2 => sent[1].driver = Expected(LatestOp)
       /\ LatestOp >= 1 => sent[1].driver = hist[LatestOp].drv
  /\ req.method = Null => sent = <<>>
  /\ got = gave

\* copy(p, q) after in(B): one call B.copy(p, q, true), which failed, and
\* the caller received that failure.
C4_Witness ==
  /\ req = [method |-> "copy", args |-> <<"p", "q">>]
  /\ sent = <<[driver |-> "B", method |-> "copy", args |-> <<"p", "q", "true">>]>>
  /\ driver = "A"
  /\ gave.kind = "failure" /\ got = gave
  /\ hist[3].kind = "op" /\ hist[3].out = "failure"

\* C5: the override race. The override belongs to the facade, not to the
\* chain that set it: an operation runs against a driver other than the one
\* its own chain asked for only when another chain's facade call came in
\* between, and it then runs against what that call left (the other chain's
\* override, or the default).
C5_OverrideRace ==
  \A i \in 2..3 :
    (hist[i].kind = "op" /\ hist[i].want # Null /\ hist[i].drv # hist[i].want)
      => /\ hist[i - 1].kind # "none"
         /\ hist[i - 1].chain # hist[i].chain
         /\ hist[i].drv = Expected(i)

\* Chain c asked for B and chain e for C; c's operation ran against C and
\* e's operation then ran against the default A.
C5_Witness ==
  \E c, e \in Chains :
    /\ c # e /\ driver = "A"
    /\ hist[1] = InEvent(e, "C")
    /\ hist[2].kind = "op" /\ hist[2].chain = c
    /\ hist[2].want = "B" /\ hist[2].drv = "C"
    /\ hist[3].kind = "op" /\ hist[3].chain = e
    /\ hist[3].want = "C" /\ hist[3].drv = "A"

(***************************************************************************)
(* Properties of the Local driver.                                         *)
(***************************************************************************)
\* The place a path names without following a link at its last component,
\* and the entry there.
PlaceOf(f, p) == Place(f, p, FALSE).path
EntryOf(f, p) ==
  IF Place(f, p, FALSE).err = "" THEN Lookup(f, PlaceOf(f, p)) ELSE NoEntry

\* The path names no entry at all.
Absent(f, p) == EntryOf(f, p).kind = "none"

\* The path exists in the sense of the driver's documentation ("exists and
\* is readable"): followed through links it names an entry, and not a file
\* without read permission.
Target(f, p) ==
  IF Place(f, p, TRUE).err = "" THEN Lookup(f, Place(f, p, TRUE).path) ELSE NoEntry
Accessible(f, p) ==
  /\ Target(f, p).kind # "none"
  /\ Target(f, p).kind = "file" => Target(f, p).r

\* The arguments of the latest call.
A1 == last.args[1]
A2 == last.args[2]

\* C6 (as claimed): write(p, d) fails with InvalidPath when p does not exist
\* and when p is a directory, and writes nothing.
C6_WriteInvalidPath ==
  (last.op = "write" /\ (Absent(fs0, A1) \/ EntryOf(fs0, A1).kind = "dir"))
    => (last.kind = "InvalidPath" /\ fs = fs0)

\* What x held at place o is at place n: the entry and all below it.
HoldsWhatWasAt(n, o) ==
  \A x \in Nodes :
    IsPrefix(o, x) =>
      Lookup(fs, n \o SubSeq(x, Len(o) + 1, Len(x))) = fs0[x]

RenameSuccess ==
  /\ Absent(fs, A1)
  /\ HoldsWhatWasAt(PlaceOf(fs0, A2), PlaceOf(fs0, A1))

\* C7 (as claimed): rename(old, new) fails with NotFound whenever old is
\* absent and with AlreadyExists whenever new is present; on success old is
\* gone and new holds what old held.
C7_RenameAsClaimed ==
  last.op = "rename" =>
    /\ Absent(fs0, A1) => last.kind = "FileDoesntExist"
    /\ Accessible(fs0, A2) => last.kind = "FileExists"
    /\ last.kind = "ok" => RenameSuccess

\* C7 (amended): rename(old, new) fails with NotFound whenever old does not
\* exist, and with AlreadyExists whenever old exists and new exists; on
\* success old is gone and new holds what old held.
C7_Rename ==
  last.op = "rename" =>
    /\ ~Accessible(fs0, A1) => last.kind = "FileDoesntExist"
    /\ (Accessible(fs0, A1) /\ Accessible(fs0, A2)) => last.kind = "FileExists"
    /\ last.kind = "ok" => RenameSuccess

\* A rename that moved a directory holding a file, and one refused for its
\* destination.
C7_Witness ==
  /\ last.op = "rename" /\ last.kind = "ok"
  /\ A1 = <<"a", "a">> /\ A2 = <<"b">>
  /\ fs0[<<"a", "a">>].kind = "dir"
  /\ fs0[<<"a", "a", "a">>] = FileEntry(<<"x">>, TRUE)
  /\ fs[<<"b", "a">>] = FileEntry(<<"x">>, TRUE)

\* The contents read at a path (links followed).
Contents(f, p) == Target(f, p).data

\* The destination can be written: followed through links it names a regular
\* file, or nothing in an existing directory.
Writable(f, d) ==
  /\ Place(f, d, TRUE).err = ""
  /\ Target(f, d).kind \in {"none", "file"}
  /\ Lookup(f, Parent(Place(f, d, TRUE).path)).kind = "dir"

\* C8 (as claimed): copy(src, dst, false) fails with AlreadyExists whenever
\* dst exists and leaves dst unchanged; copy(src, dst, true) on an existing
\* file src succeeds whatever dst is, dst then has src's contents and src is
\* unchanged.
C8_CopyAsClaimed ==
  last.op = "copy" =>
    /\ (last.args[3] = False /\ Accessible(fs0, A2))
         => (last.kind = "FileExists" /\ fs = fs0)
    /\ (last.args[3] = True /\ EntryOf(fs0, A1).kind = "file" /\ EntryOf(fs0, A1).r)
         => /\ last.kind = "ok"
            /\ Contents(fs, A2) = Contents(fs0, A1)
            /\ EntryOf(fs, A1) = EntryOf(fs0, A1)

\* C8 (amended): copy(src, dst, false) fails with AlreadyExists whenever src
\* and dst both exist, and leaves the filesystem unchanged; copy(src, dst,
\* true) on an existing file src succeeds whenever dst is a regular file or
\* is absent from an existing directory, dst then has src's contents and src
\* is unchanged.
C8_Copy ==
  last.op = "copy" =>
    /\ (last.args[3] = False /\ Accessible(fs0, A1) /\ Accessible(fs0, A2))
         => (last.kind = "FileExists" /\ fs = fs0)
    /\ (last.args[3] = True /\ Target(fs0, A1).kind = "file" /\ Target(fs0, A1).r
        /\ Writable(fs0, A2))
         => /\ last.kind = "ok"
            /\ Target(fs, A2).kind = "file"
            /\ Contents(fs, A2) = Contents(fs0, A1)
            /\ Target(fs, A1) = Target(fs0, A1)

\* copy(src, dst, true) replaced the different contents of an existing dst.
C8_Witness ==
  /\ last.op = "copy" /\ last.kind = "ok" /\ last.args[3] = True
  /\ fs0[<<"a">>] = FileEntry(<<"x">>, TRUE) /\ fs0[<<"b">>] = FileEntry(<<>>, TRUE)
  /\ A1 = <<"a">> /\ A2 = <<"b">>
  /\ fs[<<"b">>].data = <<"x">> /\ fs[<<"a">>] = fs0[<<"a">>]

\* C9: createDir(p, mode, false) fails with AlreadyExists whenever p exists;
\* a second createDir(p, mode, true) in sequence, on a path that was absent
\* before the first, does not fail.
C9_CreateDir ==
  /\ (last.op = "createDir" /\ A2 = False /\ Accessible(fs0, A1))
       => last.kind = "FileExists"
  /\ (last.op = "createDir" /\ A2 = True
      /\ prev.last.op = "createDir" /\ prev.last.args = last.args
      /\ Absent(prev.fs0, A1))
       => last.kind = "ok"

\* createDir(a/a/a, mode, true) twice, from an empty working directory; all
\* mkdir calls of the first had completed before the second.
C9_Witness ==
  /\ last.op = "createDir" /\ last.args = <<<<"a", "a", "a">>, True>>
  /\ prev.last = last /\ last.kind = "ok"
  /\ prev.fs0 = EmptyFs
  /\ fs0[<<"a", "a", "a">>].kind = "dir"

\* p is a directory reached through directories only, and all below it are
\* regular files and directories.
PlainTree(f, p) ==
  /\ \A i \in 1..Len(p) : f[SubSeq(p, 1, i)].kind = "dir"
  /\ \A n \in Below(p) : f[n].kind \in {"none", "file", "dir"}

AllGone(p) == \A n \in {p} \cup Below(p) : fs[n].kind = "none"

Classified == {"FileDoesntExist", "FileExists", "InvalidPath"}

\* C11 (as claimed): an operation that settles with a classified failure,
\* deleteAll included, leaves the filesystem exactly as it was when the
\* operation started.
C11_ClassifiedFrameAsClaimed ==
  last.kind \in Classified => fs = fs0

\* C11 (amended): an operation other than deleteAll that settles with a
\* classified failure leaves the filesystem exactly as it was when the
\* operation started; so does deleteAll(dir) when dir itself does not exist.
C11_ClassifiedFrame ==
  /\ (last.kind \in Classified /\ last.op # "deleteAll") => fs = fs0
  /\ (last.op = "deleteAll" /\ ~Accessible(fs0, A1))
       => (last.kind = "FileDoesntExist" /\ fs = fs0)

\* rename refused to move a file onto an existing file.
C11_Witness ==
  /\ last.op = "rename" /\ last.kind = "FileExists"
  /\ fs0[<<"a">>].kind = "file" /\ fs0[<<"b">>].kind = "file"
  /\ A1 = <<"a">> /\ A2 = <<"b">>
  /\ fs = fs0

(***************************************************************************)
(* The package entry point.  An error class is identified by the module    *)
(* that defines it: require returns one object per module path.            *)
(***************************************************************************)
\* The error classes the Local driver imports and throws.
LocalImports ==
  [FileDoesntExist |-> "errors/file-doesnt-exist",
   FileExists |-> "errors/file-exists",
   InvalidPath |-> "errors/invalid-path"]

\* The error classes the package exports, by exported name.
Exports ==
  [FileDoesntExist |-> "errors/file-doesnt-exist",
   FileExists |-> "errors/invalid-path",
   InvalidPath |-> "errors/invalid-path"]

\* A caller's branch "err instanceof <exported name>" on the latest failure.
InstanceOf(name) ==
  /\ last.kind \in Classified
  /\ LocalImports[last.kind] = Exports[name]

\* C12 (as claimed): the three exported error kinds are pairwise distinct,
\* each is the class the driver throws under that name, and a caller
\* branching on the exported FileExists catches exactly the AlreadyExists
\* failures of copy, createDir and rename.
C12_ExportedKinds ==
  last.kind \in Classified =>
    /\ \A j, k \in Classified : j # k => Exports[j] # Exports[k]
    /\ \A k \in Classified : Exports[k] = LocalImports[k]
    /\ InstanceOf("FileExists") <=> last.kind = "FileExists"

\* What the entry point does: a caller branching on the exported FileExists
\* catches the InvalidPath failures and none of the AlreadyExists ones.
C12_FileExistsIsInvalidPath ==
  last.kind \in Classified =>
    (InstanceOf("FileExists") <=> last.kind = "InvalidPath")

C12_Witness ==
  /\ last.op = "copy" /\ last.kind = "FileExists"
  /\ ~InstanceOf("FileExists")

\* write(p, d) on a path that exists as a regular file, then read(p).
WroteThenRead ==
  /\ last.op = "read" /\ prev.last.op = "write"
  /\ prev.last.args[1] = A1
  /\ EntryOf(prev.fs0, A1).kind = "file" /\ Accessible(prev.fs0, A1)

ReadBack ==
  /\ prev.last.kind = "ok"
  /\ last.kind = "ok"
  /\ last.val = prev.last.args[2]

\* C13 (as claimed): write(p, d) on a path that exists as a regular file,
\* then read(p) with nothing in between, returns exactly d, whatever p held
\* before.
C13_RoundTripAsClaimed == WroteThenRead => ReadBack

\* C13 (amended): the same, for every d without an unpaired surrogate.
C13_WriteReadRoundTrip ==
  (WroteThenRead /\ \A i \in 1..Len(prev.last.args[2]) :
                      prev.last.args[2][i] # Surrogate)
    => ReadBack

\* A file holding "x" was written the empty string, and read back empty.
C13_Witness ==
  /\ last.op = "read" /\ prev.last.op = "write"
  /\ A1 = <<"a", "b">> /\ prev.last.args = <<<<"a", "b">>, <<>>>>
  /\ prev.fs0[<<"a", "b">>] = FileEntry(<<"x">>, TRUE)
  /\ last.kind = "ok" /\ last.val = <<>>

\* C14: exists(p) never fails and never changes the filesystem; it settles
\* with false when p does not exist or is not readable, with true otherwise.
C14_Exists ==
  last.op = "exists" =>
    /\ last.kind = "ok"
    /\ fs = fs0
    /\ last.val = IF Accessible(fs0, A1) THEN True ELSE False

\* exists resolved false for a file without read permission, for a link to
\* nothing, and for nothing at all.
C14_Witness ==
  /\ last.op = "exists" /\ last.val = False
  /\ A1 = <<"a", "b">>
  /\ \/ EntryOf(fs0, A1) = FileEntry(<<"x">>, FALSE)
     \/ EntryOf(fs0, A1).kind = "link" /\ Target(fs0, A1).kind = "none"

\* Only the entry the path names was removed.
RemovedOnly(p) ==
  /\ last.kind = "ok"
  /\ fs = [fs0 EXCEPT ![PlaceOf(fs0, p)] = NoEntry]

DeleteOnDirectory ==
  EntryOf(fs0, A1).kind = "dir" =>
    IF Children(fs0, PlaceOf(fs0, A1)) # {}
      THEN last.kind = "native" /\ fs = fs0
      ELSE RemovedOnly(A1)

RecursiveCreateDir == last.op = "createDir" /\ A2 = True

\* The completed mkdir calls whose error the callback passes to reject.
Unexpected(i) == mkdirs[i].err \notin {"", "EEXIST"}

\* C16 (as claimed): in createDir(p, mode, true) an error other than
\* "already exists" from a segment's mkdir makes the call fail with that
\* error, and no segment is created after it; "already exists" errors do
\* not fail the call.
C16_AbortOnError ==
  RecursiveCreateDir =>
    /\ \A i \in 1..Len(mkdirs) :
         Unexpected(i) =>
           /\ last.kind = "native" /\ last.code = mkdirs[i].err
           /\ \A j \in (i + 1)..Len(mkdirs) : mkdirs[j].err # ""
    /\ (\A i \in 1..Len(mkdirs) : ~Unexpected(i)) => last.kind = "ok"

\* What the code does: the call has resolved with true whatever its mkdir
\* calls report.
C16_AlwaysResolves ==
  RecursiveCreateDir => (last.kind = "ok" /\ last.val = True)

\* createDir(a/a/a, mode, true): mkdir(a/a/a) failed for want of a/a, the
\* call had resolved, and a was created afterwards.
C16_Witness ==
  /\ RecursiveCreateDir /\ A1 = <<"a", "a", "a">>
  /\ last.kind = "ok"
  /\ Len(mkdirs) = 2
  /\ mkdirs[1] = [dir |-> <<"a", "a", "a">>, err |-> "ENOENT"]
  /\ mkdirs[2] = [dir |-> <<"a">>, err |-> ""]

\* C17 (as claimed): for a path none of whose segments exists beforehand,
\* once createDir(p, mode, true) has resolved and all its mkdir calls have
\* completed, in whatever order, p and every ancestor of p are directories.
C17_AllSegmentsCreated ==
  (/\ RecursiveCreateDir /\ last.kind = "ok" /\ inflight = {}
   /\ \A d \in Segments(A1) : Absent(fs0, d))
    => \A d \in Segments(A1) : fs[d].kind = "dir"

\* All three mkdir calls of createDir(a/a/a, mode, true) on an empty
\* working directory have completed, and a/a/a is not there.
C17_Witness ==
  /\ RecursiveCreateDir /\ A1 = <<"a", "a", "a">> /\ fs0 = EmptyFs
  /\ inflight = {} /\ Len(mkdirs) = 3
  /\ fs[<<"a">>].kind = "dir"
  /\ fs[<<"a", "a", "a">>].kind = "none"

\* What does hold: when the mkdir calls complete in the order they were
\* issued, parents first, every segment is created.
C17_CreatedInIssueOrder ==
  (/\ RecursiveCreateDir /\ inflight = {}
   /\ \A d \in Segments(A1) : Absent(fs0, d)
   /\ \A i, j \in 1..Len(mkdirs) :
        i < j => Len(mkdirs[i].dir) < Len(mkdirs[j].dir))
    => \A d \in Segments(A1) : fs[d].kind = "dir"

\* C18 (as claimed): deleteAll(dir) leaves every entry that is not dir or
\* below dir unchanged, whether it succeeds or fails, also when the tree
\* holds symbolic links.
C18_DeleteAllFrame ==
  (last.op = "deleteAll" /\ EntryOf(fs0, A1).kind = "dir")
    => \A n \in Nodes : ~IsPrefix(PlaceOf(fs0, A1), n) => fs[n] = fs0[n]

\* What does hold: the same, for a tree without a symbolic link to a
\* directory.
C18_FrameWithoutDirectoryLinks ==
  (/\ last.op = "deleteAll" /\ EntryOf(fs0, A1).kind = "dir"
   /\ \A n \in Below(PlaceOf(fs0, A1)) :
        fs0[n].kind = "link" => Target(fs0, n).kind # "dir")
    => \A n \in Nodes : ~IsPrefix(PlaceOf(fs0, A1), n) => fs[n] = fs0[n]

\* deleteAll(a), where a/a is a link to the directory b: the file b/a,
\* outside a, is gone.
C18_Witness ==
  /\ last.op = "deleteAll" /\ A1 = <<"a">>
  /\ fs0[<<"a">>].kind = "dir"
  /\ fs0[<<"a", "a">>] = LinkEntry(<<"b">>)
  /\ fs0[<<"b">>].kind = "dir" /\ fs0[<<"b", "a">>].kind = "file"
  /\ fs[<<"b", "a">>].kind = "none"

\* The destination of the latest rename or copy(src, dst, false).
RaceCall ==
  \/ last.op = "rename"
  \/ last.op = "copy" /\ last.args[3] = False

\* C19 (as claimed): rename and copy(src, dst, false) never replace an
\* entry that exists at the destination, also when other calls run between
\* their existence checks and their native call: a call that succeeded
\* found nothing at its destination.
C19_NeverReplaces ==
  (RaceCall /\ last.kind = "ok") => ~Accessible(fs0, A2)

\* What does hold: with nothing else running between its steps, a call
\* that succeeded found nothing at its destination.
C19_NeverReplacesAlone ==
  (RaceCall /\ last.kind = "ok" /\ \A t \in Tasks : tasks[t].pc = "idle")
    => ~Accessible(fs0, A2)

\* Two renames to b passed their checks while b was absent; the second
\* native rename replaced the file the first had put there.
C19_Witness ==
  /\ \A t \in Tasks : tasks[t].op = "rename" /\ tasks[t].dst = <<"b">>
                       /\ tasks[t].pc = "settled"
  /\ tasks[1].src # tasks[2].src
  /\ last.op = "rename" /\ last.kind = "ok"
  /\ prev.last.op = "rename" /\ prev.last.kind = "ok"
  /\ prev.fs0[<<"b">>].kind = "none"
  /\ fs0[<<"b">>].kind = "file"
  /\ fs[<<"b">>] # fs0[<<"b">>]

(***************************************************************************)
(* The facade under suspended operations.                                  *)
(***************************************************************************)
\* The operation at position i of the window is in flight.
InFlight(i) == hist[i].kind = "op" /\ hist[i].out = "pending"

\* in(d).op(...) with nothing in between: the operation at position i was
\* called by the chain that called in() right before it.
Chained(i) ==
  /\ hist[i].kind = "op" /\ hist[i - 1].kind = "in"
  /\ hist[i - 1].chain = hist[i].chain

\* C20: the driver of an operation is fixed when the operation is called.
\* in(d).op(...) runs op against d however many operations are in flight,
\* and a call of in() changes neither the driver calls already made nor the
\* driver of an operation in flight.
C20_DriverFixedAtCall ==
  /\ [](\A i \in 2..3 : Chained(i) => hist[i].drv = hist[i - 1].drv)
  /\ [][(hist'[3].kind = "in" /\ hist' = Push(hist, hist'[3])) =>
          /\ sent' = sent
          /\ driver' = driver
          /\ \A i \in 2..3 : InFlight(i) => hist'[i - 1] = hist[i]]_vars

\* One chain's operation is in flight against the default A; the other
\* chain called in(B).op(...), which runs against B; both are in flight.
C20_Witness ==
  \E c, e \in Chains :
    /\ c # e /\ driver = "A"
    /\ InFlight(1) /\ hist[1].chain = e /\ hist[1].drv = "A"
    /\ hist[2] = InEvent(c, "B")
    /\ InFlight(3) /\ hist[3].chain = c /\ hist[3].drv = "B"
    /\ pc[c] = "called" /\ pc[e] = "called"
    /\ sent[1].driver = "B"

====
